---------------------------- MODULE Spec2Model ----------------------------
(***************************************************************************)
(* A model of autogoal/search/_base.py: SearchAlgorithm.run, the Logger    *)
(* protocol, MultiLogger and MemoryLogger.                                 *)
(*                                                                         *)
(* run is a sequential program: pc names the source line about to execute. *)
(* A notification logger.X(args) is a call of MultiLogger.run, which       *)
(* forwards to the observers one at a time (pc = "dispatch").  A           *)
(* KeyboardInterrupt may arrive before any step that executes inside the   *)
(* try block of run (lines 67-141), a forwarding step included.            *)
(*                                                                         *)
(* An optional value (None or a value) is the empty or the one-element     *)
(* tuple.  A candidate is the number of the draw that produced it.         *)
(***************************************************************************)
EXTENDS Integers, Sequences, FiniteSets

(***************************************************************************)
(* Bounds of the model.                                                    *)
(***************************************************************************)
\* the largest finite evaluation budget given to run
MaxEval == 2
\* the number of generator calls after which the model stops exploring
MaxDraws == 3
\* the values of pop_size, early_stop and search_timeout explored
PopSizes == {1, 2}
EarlyStops == {<<>>, <<0>>, <<1>>}
SearchTimeouts == {0, 1}
\* the readings of the clock, in the unit of search_timeout
Times == {1, 2}
\* the values a successful fitness evaluation returns
Fitness == {-1, 1}

(***************************************************************************)
(* Program constants and plain helpers.                                    *)
(***************************************************************************)
\* math.inf, the budget when run is given none
Inf == 1000000

None == <<>>
Some(v) == <<v>>
Val(o) == o[1]

\* the observers given to run as the list [A, B]; A is a MemoryLogger
Loggers == <<"A", "B">>
NumLoggers == Len(Loggers)

Budgets == (0..MaxEval) \cup {Inf}

Abs(n) == IF n < 0 THEN -n ELSE n

RECURSIVE GCD(_, _)
GCD(a, b) == IF b = 0 THEN a ELSE GCD(b, a % b)

RECURSIVE Sum(_)
Sum(s) == IF s = <<>> THEN 0 ELSE Head(s) + Sum(Tail(s))

Last(s) == s[Len(s)]

VARIABLES
    \* the configuration, set by __init__ and by the arguments of run
    pop_size, maximize, errors, early_stop, search_timeout, budget,
    \* whether __init__ was given a generator_fn or a fitness_fn
    given,
    \* the locals of run
    pc, evaluations, best_solution, best_fn, no_improvement, stop, fns,
    idx, solution, fn, spent_time,
    \* the call MultiLogger.run is forwarding: the event, the position of
    \* the next observer, and the line run continues at
    call, k, ret,
    \* what each observer has received, and the MemoryLogger's two series
    logs, generation_best_fn, generation_mean_fn,
    \* history: the notifications run has made, the fitness calls and the
    \* generator calls made, how run ended, why the loop stopped, whether
    \* an interrupt arrived, whether the generator failed, and the position
    \* in trace of the call an observer threw on with the observer's position
    trace, attempts, draws, outcome, reason, interrupted, gen_failed, thrown

config == <<pop_size, maximize, errors, early_stop, search_timeout, budget,
           given>>
locals == <<evaluations, best_solution, best_fn, no_improvement, stop, fns,
            idx, solution, fn, spent_time>>
disp == <<call, k, ret>>
observers == <<logs, generation_best_fn, generation_mean_fn>>
history == <<trace, attempts, draws, outcome, reason, interrupted,
             gen_failed, thrown>>
vars == <<config, pc, locals, disp, observers, history>>

(***************************************************************************)
(* The conditions and computations of run.                                 *)
(***************************************************************************)
\* line 68: while evaluations > 0
LoopGuard(e) == e > 0

\* Improves with the comparisons made non-strict
ImprovesOrTies(f, b, mx) ==
    \/ b = None
    \/ (b # None /\ f >= Val(b) /\ mx)
    \/ (b # None /\ f <= Val(b) /\ ~mx)

\* lines 102-106: the best is replaced when absent or strictly improved
Improves(f, b, mx) ==
    \/ b = None
    \/ (b # None /\ f > Val(b) /\ mx)
    \/ (b # None /\ f < Val(b) /\ ~mx)

\* Decrement taking two units of the budget
DecrementTwice(e) == IF e = Inf THEN Inf ELSE e - 2

\* line 112: evaluations -= 1 (math.inf - 1 is math.inf)
Decrement(e) == IF e = Inf THEN Inf ELSE e - 1

\* Exhausted with the comparison made strict
ExhaustedBelowZero(e) == e < 0

\* line 114: if evaluations <= 0
Exhausted(e) == e <= 0

\* TimedOut with the comparison made non-strict
TimedOutAtLimit(st, t) == st # 0 /\ t >= st

\* lines 121-124: self._search_timeout and spent_time > self._search_timeout
TimedOut(st, t) == st # 0 /\ t > st

\* EarlyStopHit with the comparison made non-strict
EarlyStopHitAtThreshold(es, ni) == es # None /\ Val(es) # 0 /\ ni >= Val(es)

\* line 129: self._early_stop and no_improvement > self._early_stop
EarlyStopHit(es, ni) == es # None /\ Val(es) # 0 /\ ni > Val(es)

\* AfterGenerateError leaving the for loop (break) instead
AfterGenerateErrorBreak == "L134"

\* line 86: continue, to the next draw of the for loop of line 77
AfterGenerateError == "L77"

\* FailureFitness forcing a fitness of 1
FailureFitnessOne == 0 + 1

\* line 92: fn = 0, the fitness of a candidate whose evaluation failed
FailureFitness == 0

\* AppendFitness putting the fitness in front
PrependFitness(s, v) == <<v>> \o s

\* line 100: fns.append(fn)
AppendFitness(s, v) == Append(s, v)

\* IsRaise comparing with a misspelt policy name
IsRaiseMisspelt(e) == e = "Raise"

\* line 95: the "raise" policy
IsRaise(e) == e = "raise"

(***************************************************************************)
(* The observers.                                                          *)
(***************************************************************************)
Event(name, args) == <<name, args>>
Name(ev) == ev[1]
Args(ev) == ev[2]

\* Forward losing the arguments of the call
ForwardNoArgs(ev) == Event(Name(ev), <<>>)

\* MultiLogger.run: getattr(logger, name)(*args, **kwargs)
Forward(ev) == Event(Name(ev), Args(ev))

\* MultiLogger.run: for logger in self.loggers
NextLogger(j) == j + 1

\* statistics.mean as a reduced fraction <<numerator, denominator>>;
\* MemoryLogger.finish_generation sets 0 when mean raises on no data
Mean(s) ==
    IF Len(s) = 0 THEN <<0, 1>>
    ELSE LET g == GCD(Abs(Sum(s)), Len(s))
         IN <<Sum(s) \div g, Len(s) \div g>>

\* MemoryLogger.update_best: self.generation_best_fn[-1] = new_fn
MemoryUpdateBest(series, new_fn) ==
    [series EXCEPT ![Len(series)] = new_fn]

\* MemoryLogger.finish_generation: append the last entry again
MemoryFinishBest(series) == Append(series, Last(series))

\* the MemoryLogger's reaction to an event (the other hooks are Logger's
\* no-ops).  Not modelled: the bare except of line 247 also swallows a
\* KeyboardInterrupt that arrives inside statistics.mean.
MemoryLoggerReceive(ev) ==
    IF Name(ev) = "update_best"
    THEN /\ generation_best_fn' = MemoryUpdateBest(generation_best_fn, Args(ev)[2])
         /\ UNCHANGED generation_mean_fn
    ELSE IF Name(ev) = "finish_generation"
    THEN /\ generation_mean_fn' = Append(generation_mean_fn, Mean(Args(ev)[1]))
         /\ generation_best_fn' = MemoryFinishBest(generation_best_fn)
    ELSE UNCHANGED <<generation_best_fn, generation_mean_fn>>

\* reading a sequence of events
Positions(s, name) == {j \in 1..Len(s) : Name(s[j]) = name}

Count(s, name) == Cardinality(Positions(s, name))

MaxOf(S) == CHOOSE m \in S : \A n \in S : n <= m

\* the position of the last event of that name, 0 when there is none
LastPosition(s, name) == MaxOf(Positions(s, name) \cup {0})

Front(s) == SubSeq(s, 1, Len(s) - 1)

\* run calls logger.<name>(args) and continues at line cont when it returns
Notify(ev, cont) ==
    /\ pc' = "dispatch"
    /\ call' = ev
    /\ k' = 1
    /\ ret' = cont
    /\ trace' = Append(trace, ev)

(***************************************************************************)
(* The initial state: run has been called, nothing has executed.           *)
(***************************************************************************)
\* the locals of run, the observers and the history before anything ran
Fresh ==
    /\ evaluations = budget
    /\ best_solution = None
    /\ best_fn = None
    /\ no_improvement = 0
    /\ stop = FALSE
    /\ fns = <<>>
    /\ idx = 0
    /\ solution = None
    /\ fn = None
    /\ spent_time = 0
    /\ call = Event("none", <<>>)
    /\ k = 0
    /\ ret = "L63"
    /\ logs = [j \in 1..NumLoggers |-> <<>>]
    /\ generation_best_fn = <<0>>
    /\ generation_mean_fn = <<>>
    /\ trace = <<>>
    /\ attempts = 0
    /\ draws = 0
    /\ outcome = "running"
    /\ reason = "none"
    /\ interrupted = FALSE
    /\ gen_failed = FALSE
    /\ thrown = <<>>

Init ==
    /\ pop_size \in PopSizes
    /\ maximize \in BOOLEAN
    /\ errors \in {"raise", "continue"}
    /\ early_stop \in EarlyStops
    /\ search_timeout \in SearchTimeouts
    /\ budget \in Budgets
    /\ given = TRUE
    /\ pc = "L63"
    /\ Fresh

(***************************************************************************)
(* The steps of run.                                                       *)
(***************************************************************************)
\* line 63: logger.begin(evaluations)
Begin ==
    /\ pc = "L63"
    /\ Notify(Event("begin", <<evaluations>>), "L65")
    /\ UNCHANGED <<config, locals, observers, attempts, draws, outcome,
                   reason, interrupted, gen_failed, thrown>>

\* line 65: start_time = time.time(), from which spent_time is measured
StartTime ==
    /\ pc = "L65"
    /\ spent_time' = 0
    /\ pc' = "L68"
    /\ UNCHANGED <<config, evaluations, best_solution, best_fn,
                   no_improvement, stop, fns, idx, solution, fn, disp,
                   observers, history>>

\* lines 68-69: the loop test, stop = False
While ==
    /\ pc = "L68"
    /\ IF LoopGuard(evaluations)
       THEN pc' = "L71" /\ stop' = FALSE
       ELSE pc' = "L143" /\ UNCHANGED stop
    /\ UNCHANGED <<config, evaluations, best_solution, best_fn,
                   no_improvement, fns, idx, solution, fn, spent_time, disp,
                   observers, history>>

\* line 71: logger.start_generation(evaluations, best_fn); the model stops
\* exploring after MaxDraws + 1 generations
StartGeneration ==
    /\ pc = "L71"
    /\ Count(trace, "start_generation") <= MaxDraws
    /\ Notify(Event("start_generation", <<evaluations, best_fn>>), "L74")
    /\ UNCHANGED <<config, locals, observers, attempts, draws, outcome,
                   reason, interrupted, gen_failed, thrown>>

\* lines 72-75: no_improvement += 1; fns = []; the for loop starts
CountGeneration ==
    /\ pc = "L74"
    /\ no_improvement' = no_improvement + 1
    /\ fns' = <<>>
    /\ idx' = 0
    /\ pc' = "L77"
    /\ UNCHANGED <<config, evaluations, best_solution, best_fn, stop,
                   solution, fn, spent_time, disp, observers, history>>

\* lines 77-78: for _ in range(self._pop_size): solution = None
ForDraw ==
    /\ pc = "L77"
    /\ IF idx < pop_size
       THEN pc' = "L81" /\ idx' = idx + 1 /\ solution' = None
       ELSE pc' = "L134" /\ UNCHANGED <<idx, solution>>
    /\ UNCHANGED <<config, evaluations, best_solution, best_fn,
                   no_improvement, stop, fns, fn, spent_time, disp,
                   observers, history>>

\* line 81: the generator returns a candidate
Generate ==
    /\ pc = "L81"
    /\ draws < MaxDraws
    /\ draws' = draws + 1
    /\ solution' = Some(draws + 1)
    /\ pc' = "L89"
    /\ UNCHANGED <<config, evaluations, best_solution, best_fn,
                   no_improvement, stop, fns, idx, fn, spent_time, disp,
                   observers, trace, attempts, outcome, reason, interrupted,
                   gen_failed, thrown>>

\* lines 81-86: the generator raises; logger.error(message, None); continue
GenerateFails ==
    /\ pc = "L81"
    /\ draws < MaxDraws
    /\ draws' = draws + 1
    /\ gen_failed' = TRUE
    /\ Notify(Event("error", <<"generate", solution>>), AfterGenerateError)
    /\ UNCHANGED <<config, locals, observers, attempts, outcome, reason,
                   interrupted, thrown>>

\* line 89: logger.sample_solution(solution)
SampleSolution ==
    /\ pc = "L89"
    /\ Notify(Event("sample_solution", <<solution>>), "L90")
    /\ UNCHANGED <<config, locals, observers, attempts, draws, outcome,
                   reason, interrupted, gen_failed, thrown>>

\* line 90: fn = self._fitness_fn(solution) returns a value
Evaluate ==
    /\ pc = "L90"
    /\ \E v \in Fitness : fn' = Some(v)
    /\ attempts' = attempts + 1
    /\ pc' = "L99"
    /\ UNCHANGED <<config, evaluations, best_solution, best_fn,
                   no_improvement, stop, fns, idx, solution, spent_time,
                   disp, observers, trace, draws, outcome, reason,
                   interrupted, gen_failed, thrown>>

\* lines 90-93: the fitness function raises; fn = 0; logger.error(e, solution)
EvaluateFails ==
    /\ pc = "L90"
    /\ fn' = Some(FailureFitness)
    /\ attempts' = attempts + 1
    /\ Notify(Event("error", <<"evaluate", solution>>), "L95")
    /\ UNCHANGED <<config, evaluations, best_solution, best_fn,
                   no_improvement, stop, fns, idx, solution, spent_time,
                   observers, draws, outcome, reason, interrupted,
                   gen_failed, thrown>>

\* lines 95-96: under "raise", logger.end(best_solution, best_fn)
ErrorPolicy ==
    /\ pc = "L95"
    /\ IF IsRaise(errors)
       THEN /\ Notify(Event("end", <<best_solution, best_fn>>), "L97")
            /\ reason' = "error"
       ELSE /\ pc' = "L99"
            /\ UNCHANGED <<disp, trace, reason>>
    /\ UNCHANGED <<config, locals, observers, attempts, draws, outcome,
                   interrupted, gen_failed, thrown>>

\* line 97: raise, which leaves run with the failure
Reraise ==
    /\ pc = "L97"
    /\ pc' = "done"
    /\ outcome' = "raised"
    /\ UNCHANGED <<config, locals, disp, observers, trace, attempts, draws,
                   reason, interrupted, gen_failed, thrown>>

\* line 99: logger.eval_solution(solution, fn)
EvalSolution ==
    /\ pc = "L99"
    /\ Notify(Event("eval_solution", <<solution, Val(fn)>>), "L100")
    /\ UNCHANGED <<config, locals, observers, attempts, draws, outcome,
                   reason, interrupted, gen_failed, thrown>>

\* lines 100-106: fns.append(fn) and the comparison with the best
Compare ==
    /\ pc = "L100"
    /\ fns' = AppendFitness(fns, Val(fn))
    /\ pc' = IF Improves(Val(fn), best_fn, maximize) THEN "L107" ELSE "L112"
    /\ UNCHANGED <<config, evaluations, best_solution, best_fn,
                   no_improvement, stop, idx, solution, fn, spent_time,
                   disp, observers, history>>

\* line 107: logger.update_best(solution, fn, best_solution, best_fn)
UpdateBest ==
    /\ pc = "L107"
    /\ Notify(Event("update_best", <<solution, Val(fn), best_solution, best_fn>>),
              "L108")
    /\ UNCHANGED <<config, locals, observers, attempts, draws, outcome,
                   reason, interrupted, gen_failed, thrown>>

\* line 108: best_solution = solution
SetBestSolution ==
    /\ pc = "L108"
    /\ best_solution' = solution
    /\ pc' = "L109"
    /\ UNCHANGED <<config, evaluations, best_fn, no_improvement, stop, fns,
                   idx, solution, fn, spent_time, disp, observers, history>>

\* line 109: best_fn = fn
SetBestFn ==
    /\ pc = "L109"
    /\ best_fn' = fn
    /\ pc' = "L110"
    /\ UNCHANGED <<config, evaluations, best_solution, no_improvement, stop,
                   fns, idx, solution, fn, spent_time, disp, observers,
                   history>>

\* ResetNoImprovement leaving the streak as it is
ResetNoImprovementSkipped ==
    /\ pc = "L110"
    /\ pc' = "L112"
    /\ UNCHANGED <<config, evaluations, best_solution, best_fn,
                   no_improvement, stop, fns, idx, solution, fn, spent_time,
                   disp, observers, history>>

\* line 110: no_improvement = 0
ResetNoImprovement ==
    /\ pc = "L110"
    /\ no_improvement' = 0
    /\ pc' = "L112"
    /\ UNCHANGED <<config, evaluations, best_solution, best_fn, stop, fns,
                   idx, solution, fn, spent_time, disp, observers, history>>

\* lines 112-116: evaluations -= 1; stop when the budget is used up
Consume ==
    /\ pc = "L112"
    /\ evaluations' = Decrement(evaluations)
    /\ IF Exhausted(Decrement(evaluations))
       THEN stop' = TRUE /\ reason' = "budget" /\ pc' = "L134"
       ELSE pc' = "L118" /\ UNCHANGED <<stop, reason>>
    /\ UNCHANGED <<config, best_solution, best_fn, no_improvement, fns, idx,
                   solution, fn, spent_time, disp, observers, trace,
                   attempts, draws, outcome, interrupted, gen_failed,
                   thrown>>

\* lines 118-132: read the clock; stop on the search timeout or on early stop
CheckStop ==
    /\ pc = "L118"
    /\ \E t \in Times :
          /\ t >= spent_time
          /\ spent_time' = t
          /\ IF TimedOut(search_timeout, t)
             THEN stop' = TRUE /\ reason' = "timeout" /\ pc' = "L134"
             ELSE IF EarlyStopHit(early_stop, no_improvement)
             THEN stop' = TRUE /\ reason' = "early_stop" /\ pc' = "L134"
             ELSE pc' = "L77" /\ UNCHANGED <<stop, reason>>
    /\ UNCHANGED <<config, evaluations, best_solution, best_fn,
                   no_improvement, fns, idx, solution, fn, disp, observers,
                   trace, attempts, draws, outcome, interrupted, gen_failed,
                   thrown>>

\* FinishGeneration going on without the notification
FinishGenerationSkipped ==
    /\ pc = "L134"
    /\ pc' = "L137"
    /\ UNCHANGED <<config, locals, disp, observers, history>>

\* line 134: logger.finish_generation(fns)
FinishGeneration ==
    /\ pc = "L134"
    /\ Notify(Event("finish_generation", <<fns>>), "L137")
    /\ UNCHANGED <<config, locals, observers, attempts, draws, outcome,
                   reason, interrupted, gen_failed, thrown>>

\* lines 137-138: if stop: break
BreakIfStop ==
    /\ pc = "L137"
    /\ pc' = IF stop THEN "L143" ELSE "L68"
    /\ UNCHANGED <<config, locals, disp, observers, history>>

\* line 143: logger.end(best_solution, best_fn)
End ==
    /\ pc = "L143"
    /\ Notify(Event("end", <<best_solution, best_fn>>), "L144")
    /\ UNCHANGED <<config, locals, observers, attempts, draws, outcome,
                   reason, interrupted, gen_failed, thrown>>

\* line 144: return best_solution, best_fn
Return ==
    /\ pc = "L144"
    /\ pc' = "done"
    /\ outcome' = "returned"
    /\ UNCHANGED <<config, locals, disp, observers, trace, attempts, draws,
                   reason, interrupted, gen_failed, thrown>>

(***************************************************************************)
(* MultiLogger.run: one observer receives the call; after the last one the *)
(* call returns to run.                                                    *)
(***************************************************************************)
Deliver ==
    /\ pc = "dispatch"
    /\ k <= NumLoggers
    /\ logs' = [logs EXCEPT ![k] = Append(@, Forward(call))]
    /\ IF Loggers[k] = "A"
       THEN MemoryLoggerReceive(Forward(call))
       ELSE UNCHANGED <<generation_best_fn, generation_mean_fn>>
    /\ k' = NextLogger(k)
    /\ pc' = IF NextLogger(k) > NumLoggers THEN ret ELSE "dispatch"
    /\ UNCHANGED <<config, locals, call, ret, history>>

(***************************************************************************)
(* KeyboardInterrupt.  The lines of the try block of run, and the handler  *)
(* of lines 140-141, after which run goes on at line 143.                  *)
(***************************************************************************)
TryLines == {"L68", "L71", "L74", "L77", "L81", "L89", "L90", "L95", "L97",
             "L99", "L100", "L107", "L108", "L109", "L110", "L112", "L118",
             "L134", "L137"}

InTry == pc \in TryLines \/ (pc = "dispatch" /\ ret \in TryLines)

KeyboardInterrupt ==
    /\ InTry
    /\ pc' = "L143"
    /\ interrupted' = TRUE
    /\ reason' = "interrupt"
    /\ UNCHANGED <<config, locals, disp, observers, trace, attempts, draws,
                   outcome, gen_failed, thrown>>

(***************************************************************************)
(* An observer raises an exception in a hook.  MultiLogger.run has no      *)
(* handler, so the call ends there.  Raised from sample_solution (line 89) *)
(* it is caught by line 91 like a failure of the fitness function;         *)
(* raised from any other hook it leaves run.  One failure per run.         *)
(***************************************************************************)
ObserverRaises ==
    /\ pc = "dispatch"
    /\ k <= NumLoggers
    /\ thrown = <<>>
    /\ thrown' = <<k, Len(trace)>>
    /\ IF Name(call) = "sample_solution"
       THEN /\ fn' = Some(0)
            /\ Notify(Event("error", <<"evaluate", solution>>), "L95")
            /\ UNCHANGED outcome
       ELSE /\ pc' = "done"
            /\ outcome' = "raised"
            /\ UNCHANGED <<fn, disp, trace>>
    /\ UNCHANGED <<config, evaluations, best_solution, best_fn,
                   no_improvement, stop, fns, idx, solution, spent_time,
                   observers, attempts, draws, reason, interrupted,
                   gen_failed>>

Next ==
    \/ Begin
    \/ StartTime
    \/ While
    \/ StartGeneration
    \/ CountGeneration
    \/ ForDraw
    \/ Generate
    \/ GenerateFails
    \/ SampleSolution
    \/ Evaluate
    \/ EvaluateFails
    \/ ErrorPolicy
    \/ Reraise
    \/ EvalSolution
    \/ Compare
    \/ UpdateBest
    \/ SetBestSolution
    \/ SetBestFn
    \/ ResetNoImprovement
    \/ Consume
    \/ CheckStop
    \/ FinishGeneration
    \/ BreakIfStop
    \/ End
    \/ Return
    \/ Deliver
    \/ KeyboardInterrupt

Spec == Init /\ [][Next]_vars

(***************************************************************************)
(* SearchAlgorithm.__init__ (lines 14-42) followed by run.  The only check *)
(* of the constructor is that a generator_fn or a fitness_fn is given;     *)
(* pop_size is stored as it comes.                                         *)
(***************************************************************************)
PopSizeArgs == {0} \cup PopSizes

InitConstruct ==
    /\ pop_size \in PopSizeArgs
    /\ maximize \in BOOLEAN
    /\ errors \in {"raise", "continue"}
    /\ early_stop \in EarlyStops
    /\ search_timeout \in SearchTimeouts
    /\ budget \in Budgets
    /\ given \in BOOLEAN
    /\ pc = "init"
    /\ Fresh

\* lines 26-37: raise ValueError without generator_fn and fitness_fn
Construct ==
    /\ pc = "init"
    /\ IF given
       THEN pc' = "L63" /\ UNCHANGED outcome
       ELSE pc' = "done" /\ outcome' = "rejected"
    /\ UNCHANGED <<config, locals, disp, observers, trace, attempts, draws,
                   reason, interrupted, gen_failed, thrown>>

NextConstruct == Construct \/ Next

SpecConstruct == InitConstruct /\ [][NextConstruct]_vars

\* the same program with observers that may raise
NextThrow == Next \/ ObserverRaises

SpecThrow == Init /\ [][NextThrow]_vars

(***************************************************************************)
(* Reading the history.                                                    *)
(***************************************************************************)
\* the fitness calls that failed, as the error notifications run made for them
EvaluationErrors(s) ==
    {j \in Positions(s, "error") : Args(s[j])[1] = "evaluate"}

\* the generations started after the last update_best notification
GenerationsSinceUpdate(s) ==
    Cardinality({j \in Positions(s, "start_generation") :
                    j > LastPosition(s, "update_best")})

\* the lines between the call of the fitness function and line 112
AttemptLines == {"L95", "L97", "L99", "L100", "L107", "L108", "L109", "L110",
                 "L112"}

MidAttempt == pc \in AttemptLines \/ (pc = "dispatch" /\ ret \in AttemptLines)

(***************************************************************************)
(* C1, as claimed: with a finite budget E and no generator failure, a      *)
(* finished run has made exactly E fitness calls (stated here of the runs  *)
(* no interrupt ended).                                                    *)
(***************************************************************************)
C1_ExactlyBudgetAttempts ==
    (pc = "done" /\ budget # Inf /\ ~gen_failed /\ ~interrupted) =>
        attempts = budget

(***************************************************************************)
(* C1, as amended: with a finite budget E and no generator failure, the    *)
(* fitness calls never exceed E, and a run that finishes because the       *)
(* budget is used up (no timeout, early stop, interrupt or raise ended it) *)
(* has made exactly E of them.                                             *)
(***************************************************************************)
C1_AttemptsWithinBudget ==
    (budget # Inf /\ ~gen_failed) =>
        /\ attempts <= budget
        /\ (pc = "done" /\ reason \in {"budget", "none"}) => attempts = budget

C1_Witness ==
    /\ pc = "done"
    /\ outcome = "returned"
    /\ reason = "budget"
    /\ ~gen_failed
    /\ budget = MaxEval
    /\ attempts = MaxEval
    /\ pop_size = 1

(***************************************************************************)
(* C2, as claimed: when run has finished, every observer has received end  *)
(* exactly once, as the last event it received.                            *)
(***************************************************************************)
C2_EndExactlyOnce ==
    pc = "done" =>
        \A j \in 1..NumLoggers :
            /\ Count(logs[j], "end") = 1
            /\ Name(Last(logs[j])) = "end"

(***************************************************************************)
(* C3: under the "raise" policy, when every fitness call made so far has   *)
(* failed (and no interrupt arrived), there has been one call only, no     *)
(* eval_solution or update_best was notified, nothing but end(None, None)  *)
(* follows the error notification, the best is absent, and run ends by     *)
(* raising, each observer having received end once, last.                  *)
(***************************************************************************)
C3_RaiseAbortsOnFirstFailure ==
    (/\ errors = "raise"
     /\ ~interrupted
     /\ attempts >= 1
     /\ Cardinality(EvaluationErrors(trace)) = attempts) =>
        LET p == LastPosition(trace, "error")
        IN /\ attempts = 1
           /\ Count(trace, "eval_solution") = 0
           /\ Count(trace, "update_best") = 0
           /\ SubSeq(trace, p + 1, Len(trace))
                 \in {<<>>, <<Event("end", <<None, None>>)>>}
           /\ best_solution = None /\ best_fn = None
           /\ pc \in {"dispatch", "L95", "L97", "done"}
           /\ pc = "done" =>
                 /\ outcome = "raised"
                 /\ \A j \in 1..NumLoggers :
                       /\ Count(logs[j], "end") = 1
                       /\ Last(logs[j]) = Event("end", <<None, None>>)

C3_Witness ==
    /\ errors = "raise"
    /\ ~interrupted
    /\ pc = "done"
    /\ outcome = "raised"
    /\ attempts = 1
    /\ gen_failed
    /\ Count(trace, "end") = 1

(***************************************************************************)
(* C4: in every step, a present best_fn stays present and never gets       *)
(* worse in the configured direction; the best pair changes only when the  *)
(* evaluated fitness is strictly better than best_fn or best_fn is absent  *)
(* (never on a tie); and the comparison of an evaluation goes on to        *)
(* update_best exactly in those cases.                                     *)
(***************************************************************************)
C4_StrictlyBetter ==
    \/ best_fn = None
    \/ (maximize /\ Val(fn) > Val(best_fn))
    \/ (~maximize /\ Val(fn) < Val(best_fn))

C4_BestMonotoneStrict ==
    [][/\ best_fn # None =>
            /\ best_fn' # None
            /\ maximize => Val(best_fn') >= Val(best_fn)
            /\ ~maximize => Val(best_fn') <= Val(best_fn)
       /\ (best_fn' # best_fn \/ best_solution' # best_solution) =>
            /\ best_fn' \in {best_fn, fn}
            /\ best_solution' \in {best_solution, solution}
            /\ \/ best_fn = None
               \/ Val(fn) # Val(best_fn)
            /\ C4_StrictlyBetter
       /\ (pc = "L100" /\ pc' # "L143") =>
            (pc' = "L107" <=> C4_StrictlyBetter)
       /\ (pc # "L107" /\ Len(trace') > Len(trace)) =>
            Name(Last(trace')) # "update_best"
      ]_vars

C4_Witness ==
    /\ pc = "L112"
    /\ best_fn # None
    /\ Val(fn) = Val(best_fn)
    /\ best_solution # solution
    /\ Count(trace, "update_best") = 1

C6_SameSequenceInOrder ==
    ~interrupted =>
        \A j \in 1..NumLoggers :
            IF pc = "dispatch" /\ j >= k
            THEN logs[j] = Front(trace)
            ELSE logs[j] = trace

C6_Witness ==
    /\ pc = "done"
    /\ ~interrupted
    /\ logs[1] = trace
    /\ logs[2] = trace
    /\ Count(trace, "update_best") >= 1
    /\ Count(trace, "error") >= 1
    /\ Count(trace, "finish_generation") >= 1
    /\ Count(trace, "end") = 1

(***************************************************************************)
(* C7, as claimed: when A raised on a call (and no interrupt arrived),     *)
(* once the forwarding of that call is over B has received the call.       *)
(***************************************************************************)
C7_ForwardsDespiteRaise ==
    (/\ thrown # <<>>
     /\ thrown[1] = 1
     /\ ~interrupted
     /\ pc # "dispatch") =>
        /\ Len(logs[2]) >= thrown[2]
        /\ logs[2][thrown[2]] = trace[thrown[2]]

(***************************************************************************)
(* C8: evaluations is the budget minus the fitness calls made, or one      *)
(* more while the call just made has not reached line 112 (or never will:  *)
(* an interrupt or the "raise" policy ended the loop); an unbounded budget *)
(* stays unbounded.                                                        *)
(***************************************************************************)
C8_BudgetAccounting ==
    IF budget = Inf
    THEN evaluations = Inf
    ELSE /\ evaluations \in {budget - attempts, budget - attempts + 1}
         /\ evaluations = budget - attempts + 1 =>
               (MidAttempt \/ interrupted \/ reason = "error")
         /\ evaluations <= budget

C8_Witness ==
    /\ pc = "L77"
    /\ errors = "continue"
    /\ gen_failed
    /\ attempts = 1
    /\ budget = 2
    /\ evaluations = 1
    /\ Cardinality(EvaluationErrors(trace)) = 1

(***************************************************************************)
(* C9, as claimed: after a run of k >= 1 finished generations the          *)
(* MemoryLogger holds k means and k best-so-far values, the i-th mean      *)
(* being the mean of the i-th finished generation and the i-th best the    *)
(* fitness of the last update_best received before the i-th                *)
(* finish_generation.                                                      *)
(***************************************************************************)
C9_FinishPositions == Positions(logs[1], "finish_generation")

C9_NthFinish(i) ==
    CHOOSE p \in C9_FinishPositions :
        Cardinality({q \in C9_FinishPositions : q <= p}) = i

C9_BestBefore(p) ==
    LET u == LastPosition(SubSeq(logs[1], 1, p), "update_best")
    IN IF u = 0 THEN 0 ELSE Args(logs[1][u])[2]

C9_OneEntryPerGeneration ==
    (pc = "done" /\ outcome = "returned" /\ ~interrupted
        /\ C9_FinishPositions # {}) =>
        LET n == Cardinality(C9_FinishPositions)
        IN /\ Len(generation_mean_fn) = n
           /\ Len(generation_best_fn) = n
           /\ \A i \in 1..n :
                 /\ generation_mean_fn[i] =
                       Mean(Args(logs[1][C9_NthFinish(i)])[1])
                 /\ generation_best_fn[i] = C9_BestBefore(C9_NthFinish(i))

(***************************************************************************)
(* C10, as claimed: a run that an interrupt ended returns, and the pair it *)
(* returns and passes to end is the pair of the last update_best an        *)
(* observer received (None, None when there was none).                     *)
(***************************************************************************)
C10_LastNotified ==
    LET u == LastPosition(logs[1], "update_best")
    IN IF u = 0 THEN <<None, None>>
       ELSE <<Args(logs[1][u])[1], Some(Args(logs[1][u])[2])>>

C10_InterruptKeepsBest ==
    (pc = "done" /\ interrupted) =>
        /\ outcome = "returned"
        /\ <<best_solution, best_fn>> = C10_LastNotified
        /\ Args(Last(logs[1])) = C10_LastNotified

(***************************************************************************)
(* C11, as claimed: no run executes with pop_size < 1, the constructor     *)
(* having rejected it.                                                     *)
(***************************************************************************)
C11_PopSizeValidated ==
    (pc # "init" /\ outcome # "rejected") => pop_size >= 1

(***************************************************************************)
(* Generations in a sequence of events.                                    *)
(***************************************************************************)
\* the error notifications made for a failure of the generator
GenerateErrors(s) ==
    {j \in Positions(s, "error") : Args(s[j])[1] = "generate"}

\* the last position of the generation started at position g: the one before
\* the next start_generation, or the last of s
GenerationEnd(s, g) ==
    LET later == {q \in (g + 1)..Len(s) : Name(s[q]) = "start_generation"}
    IN  IF later = {} THEN Len(s)
        ELSE (CHOOSE q \in later : \A r \in later : q <= r) - 1

\* the position of the last start_generation at or before position j, 0 when
\* there is none
RECURSIVE GenerationStart(_, _)
GenerationStart(s, j) ==
    IF j = 0 THEN 0
    ELSE IF Name(s[j]) = "start_generation" THEN j
    ELSE GenerationStart(s, j - 1)

\* the positions of the events of the generation started at position g
GenerationSpan(s, g) == (g + 1)..GenerationEnd(s, g)

(***************************************************************************)
(* C12: a failure of the generator makes one error notification with no    *)
(* candidate and goes on to the next draw of the same generation under     *)
(* either policy: the step and the forwarding of the notification leave    *)
(* evaluations, the fitness calls made, fns and the best pair as they      *)
(* were; what follows the notification is the next draw (its error or its  *)
(* sample_solution) or the end of the generation, never eval_solution or   *)
(* update_best; run raises only after a failed evaluation; and a           *)
(* generation makes at most pop_size draws, the failed ones counted.  The  *)
(* notifications are examined each time one is made.                       *)
(***************************************************************************)
C12_IsGenerateError(ev) ==
    Name(ev) = "error" /\ Args(ev)[1] = "generate"

C12_Run ==
    /\ (pc = "dispatch" /\ C12_IsGenerateError(call)) =>
          /\ ret = "L77"
          /\ Args(call)[2] = None
    /\ outcome = "raised" =>
          /\ errors = "raise"
          /\ Len(trace) >= 2
          /\ Name(trace[Len(trace) - 1]) = "error"
          /\ Args(trace[Len(trace) - 1])[1] = "evaluate"

C12_Notified ==
    /\ \A j \in GenerateErrors(trace) :
          j < Len(trace) =>
             /\ Name(trace[j + 1]) \in
                   {"error", "sample_solution", "finish_generation", "end"}
             /\ Name(trace[j + 1]) = "error" =>
                   C12_IsGenerateError(trace[j + 1])
             /\ Name(trace[j + 1]) = "end" => interrupted
    /\ \A g \in Positions(trace, "start_generation") :
          Cardinality({q \in GenerationSpan(trace, g) :
                          \/ Name(trace[q]) = "sample_solution"
                          \/ C12_IsGenerateError(trace[q])}) <= pop_size

C12_GeneratorFailureSkipsDraw ==
    [][/\ C12_Run'
       /\ trace' # trace => C12_Notified'
       /\ ((pc = "L81" /\ pc' = "dispatch")
           \/ (pc = "dispatch" /\ C12_IsGenerateError(call))) =>
              /\ evaluations' = evaluations
              /\ attempts' = attempts
              /\ fns' = fns
              /\ best_solution' = best_solution
              /\ best_fn' = best_fn
       /\ (pc = "L81" /\ pc' = "dispatch") =>
              /\ Len(trace') = Len(trace) + 1
              /\ C12_IsGenerateError(Last(trace'))
      ]_vars

C12_Witness ==
    /\ pc = "L89"
    /\ pop_size = 2
    /\ idx = 2
    /\ errors = "raise"
    /\ C12_IsGenerateError(Last(trace))
    /\ fns = <<>>
    /\ evaluations = budget

(***************************************************************************)
(* C13: under "continue" a failed evaluation is one error notification     *)
(* followed by what a successful evaluation of fitness 0 makes: the next   *)
(* notification is eval_solution(candidate, 0); update_best(candidate, 0)  *)
(* follows exactly when no fitness was notified before or 0 is strictly    *)
(* better than every fitness notified before; 0 is the last entry of fns   *)
(* and the best fitness is the best of the fitnesses notified, the 0       *)
(* included, when line 112 is reached; every eval_solution notified, the   *)
(* forced ones included, has taken one unit of a finite budget once line   *)
(* 112 has executed; and run never raises.  An interrupt may put end in    *)
(* the place of the notification that would follow.  The notifications     *)
(* are examined each time one is made.                                     *)
(***************************************************************************)
C13_BetterThanEarlier(s, j) ==
    \A q \in Positions(s, "eval_solution") :
        q < j => IF maximize THEN Args(s[j])[2] > Args(s[q])[2]
                 ELSE Args(s[j])[2] < Args(s[q])[2]

C13_CutShort(ev) == interrupted /\ Name(ev) = "end"

C13_Notified ==
    \A j \in EvaluationErrors(trace) :
        /\ j < Len(trace) =>
             \/ trace[j + 1] = Event("eval_solution", <<Args(trace[j])[2], 0>>)
             \/ C13_CutShort(trace[j + 1])
        /\ (j + 1 < Len(trace) /\ Name(trace[j + 1]) = "eval_solution") =>
             IF C13_BetterThanEarlier(trace, j + 1)
             THEN \/ /\ Name(trace[j + 2]) = "update_best"
                     /\ Args(trace[j + 2])[1] = Args(trace[j])[2]
                     /\ Args(trace[j + 2])[2] = 0
                  \/ C13_CutShort(trace[j + 2])
             ELSE Name(trace[j + 2]) # "update_best"

C13_Run ==
    /\ outcome # "raised"
    /\ LET e == LastPosition(trace, "eval_solution")
       IN  (pc = "L112" /\ e > 1 /\ (e - 1) \in EvaluationErrors(trace)) =>
             /\ fn = Some(0)
             /\ fns # <<>> /\ Last(fns) = 0
             /\ best_fn # None
             /\ \E q \in Positions(trace, "eval_solution") :
                   Args(trace[q])[2] = Val(best_fn)
             /\ \A q \in Positions(trace, "eval_solution") :
                   IF maximize THEN Args(trace[q])[2] <= Val(best_fn)
                   ELSE Args(trace[q])[2] >= Val(best_fn)
             /\ C13_BetterThanEarlier(trace, e) =>
                   best_solution = Args(trace[e])[1]
    /\ (budget # Inf /\ (pc = "L118" \/ (pc = "L134" /\ reason = "budget"))) =>
          evaluations = budget - Count(trace, "eval_solution")

C13_FailureCountsAsZero ==
    [][errors = "continue" =>
          /\ C13_Run'
          /\ trace' # trace => C13_Notified'
      ]_vars

C13_Witness ==
    /\ pc = "done"
    /\ outcome = "returned"
    /\ ~interrupted
    /\ errors = "continue"
    /\ ~maximize
    /\ best_fn = Some(0)
    /\ \E j \in EvaluationErrors(trace) :
          /\ j > 1
          /\ Count(Front(SubSeq(trace, 1, j)), "eval_solution") = 1
          /\ j + 2 <= Len(trace)
          /\ Name(trace[j + 1]) = "eval_solution"
          /\ Name(trace[j + 2]) = "update_best"

(***************************************************************************)
(* C14, as claimed: the check made after an evaluation attempt that left   *)
(* budget lets the run go on to the next draw only when the early-stop     *)
(* condition is false, that is, never with early_stop configured and       *)
(* no_improvement > early_stop, whatever the threshold, 0 included.        *)
(* Line 129 tests the truth of early_stop first, and 0 is false.           *)
(***************************************************************************)
C14_EarlyStopConfigured == early_stop # None

C14_StopsPastEveryThreshold ==
    [][(pc = "L118" /\ pc' = "L77") =>
          ~(C14_EarlyStopConfigured /\ no_improvement > Val(early_stop))]_vars

(***************************************************************************)
(* C15: once the elapsed time read after an evaluation attempt exceeds a   *)
(* configured search_timeout (> 0), stop is set and the run is at or past  *)
(* line 134: it draws no candidate and starts no generation again, it      *)
(* notifies finish_generation and then end with the best pair it holds,    *)
(* and returns it.  The run stops for the time only then: never with       *)
(* search_timeout = 0, never with an elapsed time within search_timeout.   *)
(***************************************************************************)
C15_Closing ==
    \/ pc \in {"L134", "L137", "L143", "L144", "done"}
    \/ pc = "dispatch" /\ ret \in {"L137", "L144"}

C15_TimeoutStops ==
    /\ (search_timeout > 0 /\ spent_time > search_timeout) =>
          /\ stop
          /\ reason \in {"timeout", "interrupt"}
          /\ C15_Closing
    /\ reason = "timeout" =>
          /\ search_timeout > 0
          /\ spent_time > search_timeout
          /\ ~interrupted
    /\ (reason = "timeout" /\ pc \in {"L143", "L144", "done"}) =>
          Name(Last(trace)) \in {"finish_generation", "end"}
    /\ (reason = "timeout" /\ pc = "done") =>
          /\ outcome = "returned"
          /\ Name(trace[Len(trace) - 1]) = "finish_generation"
          /\ Last(trace) = Event("end", <<best_solution, best_fn>>)
          /\ Count(trace, "end") = 1

C15_Witness ==
    /\ pc = "done"
    /\ reason = "timeout"
    /\ search_timeout = 1
    /\ spent_time = 2
    /\ best_fn # None
    /\ evaluations > 0

(***************************************************************************)
(* C16: the sequence passed to each finish_generation is the fitnesses of  *)
(* the eval_solution notifications made since the start_generation before  *)
(* it, in the order they were made: one entry per eval_solution (the       *)
(* forced zeros of failed evaluations are notified by eval_solution too),  *)
(* none for a draw whose generator failed, and the entries and the failed  *)
(* draws together are at most pop_size.  The notifications are examined    *)
(* each time one is made.                                                  *)
(***************************************************************************)
C16_Notified ==
    \A j \in Positions(trace, "finish_generation") :
        LET given_fns == Args(trace[j])[1]
            g == GenerationStart(trace, j)
            evals == {q \in (g + 1)..j : Name(trace[q]) = "eval_solution"}
            skipped == {q \in (g + 1)..j : C12_IsGenerateError(trace[q])}
        IN  /\ g > 0
            /\ Len(given_fns) = Cardinality(evals)
            /\ \A q \in evals :
                  given_fns[Cardinality({r \in evals : r <= q})] = Args(trace[q])[2]
            /\ Len(given_fns) + Cardinality(skipped) <= pop_size

C16_FinishCarriesFitnesses ==
    [][trace' # trace => C16_Notified']_vars

C16_Witness ==
    /\ pop_size = 2
    /\ errors = "continue"
    /\ \E j \in Positions(trace, "finish_generation") :
          /\ Args(trace[j])[1] = <<-1, 0>>
          /\ j - 1 \in Positions(trace, "eval_solution")
          /\ j - 2 \in EvaluationErrors(trace)

(***************************************************************************)
(* C17: no_improvement changes at two lines only: line 74, once per        *)
(* generation started, adds exactly 1, and line 110, reached exactly after *)
(* best_fn was assigned at line 109, sets it to 0; an evaluation that does *)
(* not improve, a tie and a generator failure leave it alone.  So, between *)
(* these updates, it is the number of start_generation notifications made  *)
(* after the last update_best notification.  Stated of runs no interrupt   *)
(* has cut between a notification and the assignment that follows it.      *)
(***************************************************************************)
C17_Settled ==
    /\ pc \notin {"L74", "L108", "L109", "L110"}
    /\ ~(pc = "dispatch" /\ ret \in {"L74", "L108"})

C17_StreakCountsGenerations ==
    [][/\ no_improvement' # no_improvement =>
             \/ pc = "L74" /\ no_improvement' = no_improvement + 1
             \/ pc = "L110" /\ no_improvement' = 0
       /\ (pc = "L74" /\ ~interrupted') => no_improvement' = no_improvement + 1
       /\ (pc = "L110" /\ ~interrupted') => no_improvement' = 0
       /\ best_fn' # best_fn => pc = "L109" /\ pc' = "L110"
       /\ (C17_Settled' /\ ~interrupted') =>
             no_improvement' = GenerationsSinceUpdate(trace')
      ]_vars

C17_Witness ==
    /\ pc = "L77"
    /\ ~interrupted
    /\ no_improvement = 2
    /\ best_fn # None
    /\ Count(trace, "eval_solution") = 2
    /\ Count(trace, "update_best") = 1

(***************************************************************************)
(* C18, as claimed: whenever run returns, the fitness returned is the      *)
(* maximum (minimum when not maximize) of the fitnesses notified through   *)
(* eval_solution, the candidate returned is the earliest one notified with *)
(* that fitness, end was given the same pair, and the pair is (None, None) *)
(* exactly when no eval_solution was notified (the notifications being the *)
(* ones every logger has received).  A run that an interrupt               *)
(* ends between eval_solution and line 109 returns too, with the pair it   *)
(* held before.                                                            *)
(***************************************************************************)
C18_Heard == logs[NumLoggers]

C18_Evals == Positions(C18_Heard, "eval_solution")

C18_Best(q) ==
    \A r \in C18_Evals :
        /\ IF maximize THEN Args(C18_Heard[r])[2] <= Args(C18_Heard[q])[2]
           ELSE Args(C18_Heard[r])[2] >= Args(C18_Heard[q])[2]
        /\ Args(C18_Heard[r])[2] = Args(C18_Heard[q])[2] => q <= r

C18_ReturnsBestNotified ==
    (pc = "done" /\ outcome = "returned") =>
        /\ Last(C18_Heard) = Event("end", <<best_solution, best_fn>>)
        /\ IF C18_Evals = {}
           THEN best_solution = None /\ best_fn = None
           ELSE \E q \in C18_Evals :
                   /\ C18_Best(q)
                   /\ best_solution = Args(C18_Heard[q])[1]
                   /\ best_fn = Some(Args(C18_Heard[q])[2])

(***************************************************************************)
(* C19, as claimed: a run with pop_size >= 1 and a finite budget, a        *)
(* search timeout or an early-stop threshold reaches end whatever the      *)
(* generator does.  The while loop is left only through the budget (lines  *)
(* 68 and 114), the clock (lines 118-127) and the streak (lines 129-132),  *)
(* and lines 112-132 are executed only after a fitness attempt; so the     *)
(* claim needs every pass that comes back to line 68 to have made one.     *)
(* A pass whose draws all failed in the generator comes back with          *)
(* evaluations and stop as they were, and so does the next.                *)
(***************************************************************************)
C19_PassStarted ==
    Args(trace[LastPosition(trace, "start_generation")])[1]

C19_EveryPassAdvances ==
    (pc = "L137" /\ ~stop /\ budget # Inf /\ search_timeout > 0
        /\ early_stop # None /\ Val(early_stop) > 0) =>
        \/ evaluations < C19_PassStarted
        \/ spent_time > 0
        \/ fns # <<>>

(***************************************************************************)
(* The generation brackets of the notifications made.                      *)
(***************************************************************************)
C20_Brackets == {"begin", "start_generation", "finish_generation"}

C20_Inner == {"sample_solution", "eval_solution", "error", "update_best"}

\* the name of the last of begin, start_generation and finish_generation
\* notified before position j, "none" when there is none
RECURSIVE C20_Before(_)
C20_Before(j) ==
    IF j <= 1 THEN "none"
    ELSE IF Name(trace[j - 1]) \in C20_Brackets THEN Name(trace[j - 1])
    ELSE C20_Before(j - 1)

\* every notification but end is where the brackets allow it
C20_WellBracketed ==
    \A j \in 1..Len(trace) :
        /\ Name(trace[j]) \in C20_Inner => C20_Before(j) = "start_generation"
        /\ Name(trace[j]) = "finish_generation" =>
              C20_Before(j) = "start_generation"
        /\ Name(trace[j]) = "start_generation" =>
              C20_Before(j) \in {"begin", "finish_generation"}

(***************************************************************************)
(* C20, as claimed: in every run, the ones ended by a "raise" abort or an  *)
(* interrupt included, each start_generation is followed by exactly one    *)
(* finish_generation before the next start_generation and before end, and  *)
(* sample_solution, eval_solution, error and update_best are notified only *)
(* between a start_generation and its finish_generation.                   *)
(***************************************************************************)
C20_EveryGenerationFinished ==
    /\ C20_WellBracketed
    /\ \A j \in Positions(trace, "end") :
          C20_Before(j) \in {"begin", "finish_generation"}

(***************************************************************************)
(* C20, as amended: sample_solution, eval_solution, error and update_best  *)
(* are notified only after a start_generation that no finish_generation    *)
(* has followed yet; finish_generation is notified only for such a         *)
(* start_generation, and start_generation only after begin or a            *)
(* finish_generation, so each generation has at most one                   *)
(* finish_generation, before the next start_generation; and end finds the  *)
(* last generation without its finish_generation only in a run ended by a  *)
(* "raise" abort or by an interrupt.  The notifications are examined each  *)
(* time one is made.                                                       *)
(***************************************************************************)
C20_Notified ==
    /\ C20_WellBracketed
    /\ \A j \in Positions(trace, "end") :
          \/ C20_Before(j) \in {"begin", "finish_generation"}
          \/ C20_Before(j) = "start_generation"
                /\ (interrupted \/ (reason = "error" /\ IsRaise(errors)))

C20_GenerationFinishedUnlessCut ==
    [][trace' # trace => C20_Notified']_vars

C20_Witness ==
    /\ pc = "done"
    /\ outcome = "raised"
    /\ ~interrupted
    /\ Count(trace, "start_generation") = 2
    /\ Count(trace, "finish_generation") = 1
    /\ Name(Last(trace)) = "end"

=============================================================================
